---- MODULE Spec2Model ----
(***************************************************************************)
(* Model of scripts/simple-discovery.py: the in-memory peer registry of    *)
(* the ShadowMesh discovery server (the global dict `peers`) and the       *)
(* request handlers of DiscoveryHandler that read and write it.            *)
(*                                                                         *)
(* Strings are sequences of one-character strings, so that slicing         *)
(* (peer_id[:16]) and %-formatting (log_message) are computed.  Literal    *)
(* text of a log line is kept as one token; it holds no '%'.  A JSON       *)
(* object / query string is a function whose domain is the keys given.     *)
(* Time (time.time()) is an integer number of seconds.                     *)
(***************************************************************************)
EXTENDS Integers, Sequences, FiniteSets, TLC

VARIABLES
    peers,            \* the dict `peers`, in insertion order: a sequence of records, keyed by peer_id
    clock,            \* the value time.time() returns
    ticks,            \* number of clock advances so far (bounds the run)
    last,             \* the request handled at this instant, if any: what was asked, written to the client and logged
    first_registered, \* history: peer_id -> time of the first registration ever stored for it (-1: none)
    conn,             \* per client: its connection, and the locals of the handler serving it (SpecConc)
    acked             \* history: peer_id -> the latest registration answered 201 (SpecConc)

vars == <<peers, clock, ticks, last, first_registered, conn, acked>>

concVars == <<conn, acked>>

----------------------------------------------------------------------------
(* Program constants *)

STALE_TIMEOUT == 300
DEFAULT_PORT == 8443
LOG_ID_LEN == 16

(* Bounds of the model *)

MaxTicks == 2

----------------------------------------------------------------------------
(* Python values *)

None == <<"None">>                 \* Python None (no one-character string, so never a str)

Falsy(v) == v = None \/ v = <<>>   \* `not v` for v a str or None

PyOr(a, b) == IF Falsy(a) THEN b ELSE a     \* `a or b`

GetOr(d, k, dflt) == IF k \in DOMAIN d THEN d[k] ELSE dflt   \* dict.get(k, dflt)

Slice(s, n) == IF Len(s) <= n THEN s ELSE SubSeq(s, 1, n)    \* s[:n]

Digits == {"0", "1", "2", "3", "4", "5", "6", "7", "8", "9"}

\* int(s) for a str s does not raise (decimal digits only are modelled)
IntParses(s) == s # <<>> /\ \A i \in DOMAIN s : s[i] \in Digits

\* `fmt % ()` raises: some '%' of fmt is not the first of a "%%" pair
RECURSIVE FormatRaises(_)
FormatRaises(fmt) ==
    IF fmt = <<>> THEN FALSE
    ELSE IF Head(fmt) # "%" THEN FormatRaises(Tail(fmt))
    ELSE IF Len(fmt) >= 2 /\ fmt[2] = "%" THEN FormatRaises(SubSeq(fmt, 3, Len(fmt)))
    ELSE TRUE

\* log_message(format) with no args: print(format % ()) raises or prints
LogRaises(format) == FormatRaises(format)

----------------------------------------------------------------------------
(* The dict `peers`: records in insertion order, at most one per peer_id *)

Keys(d) == {d[i].peer_id : i \in DOMAIN d}

Has(d, k) == \E i \in DOMAIN d : d[i].peer_id = k

IndexOf(d, k) == CHOOSE i \in DOMAIN d : d[i].peer_id = k

Get(d, k) == d[IndexOf(d, k)]

\* mutant: a store that never replaces (a list append in place of a dict store)
DictSet_Append(d, k, rec) == Append(d, rec)

\* mutant: the store rebinds the whole dict (peers = {k: rec})
DictSet_Rebuild(d, k, rec) == <<rec>>

\* d[k] = rec : an existing key keeps its place, a new key goes last
DictSet(d, k, rec) ==
    IF Has(d, k) THEN [d EXCEPT ![IndexOf(d, k)] = rec] ELSE Append(d, rec)

\* del d[k], k present
DictDel(d, k) ==
    LET i == IndexOf(d, k)
    IN  SubSeq(d, 1, i - 1) \o SubSeq(d, i + 1, Len(d))

\* mutant: the staleness test with <= in place of <
IsActive_Inclusive(info, now) == now - info.last_seen <= STALE_TIMEOUT

\* now - info['last_seen'] < stale_timeout
IsActive(info, now) == now - info.last_seen < STALE_TIMEOUT

\* [info for info in peers.values() if now - info['last_seen'] < 300]
RECURSIVE ActiveOf(_, _)
ActiveOf(s, now) ==
    IF s = <<>> THEN <<>>
    ELSE IF IsActive(Head(s), now) THEN <<Head(s)>> \o ActiveOf(Tail(s), now)
    ELSE ActiveOf(Tail(s), now)

----------------------------------------------------------------------------
(* What a handler leaves behind: the registry, the status lines written to *)
(* the client in order (send_response, then send_error from the except     *)
(* clause if one ran), the JSON body written, and the lines logged.        *)

NoBody == [none |-> TRUE]

Out(reg, resp, body, log) == [peers |-> reg, resp |-> resp, body |-> body, log |-> log]

----------------------------------------------------------------------------
(* POST /register, /api/peers/register *)

RegisterMsg(is_new, peer_id, ip) ==
    <<IF is_new THEN "Registered" ELSE "Updated", " peer ">>
        \o Slice(peer_id, LOG_ID_LEN) \o <<"... at ">> \o ip \o <<":{port} (public={is_public})">>

\* mutant: registered_at overwritten on every registration
NewRecord_Overwriting(reg, now, peer_id, ip, port, is_public) ==
    [peer_id       |-> peer_id,
     ip            |-> ip,
     port          |-> port,
     is_public     |-> is_public,
     last_seen     |-> now,
     registered_at |-> now]

\* mutant: last_seen kept from the stored record, like registered_at
NewRecord_KeepLastSeen(reg, now, peer_id, ip, port, is_public) ==
    [peer_id       |-> peer_id,
     ip            |-> ip,
     port          |-> port,
     is_public     |-> is_public,
     last_seen     |-> IF Has(reg, peer_id) THEN Get(reg, peer_id).last_seen ELSE now,
     registered_at |-> IF Has(reg, peer_id) THEN Get(reg, peer_id).registered_at ELSE now]

\* the record stored by peers[peer_id] = {...}
NewRecord(reg, now, peer_id, ip, port, is_public) ==
    [peer_id       |-> peer_id,
     ip            |-> ip,
     port          |-> port,
     is_public     |-> is_public,
     last_seen     |-> now,
     registered_at |-> IF Has(reg, peer_id) THEN Get(reg, peer_id).registered_at ELSE now]

\* mutant: `and` in place of `or`
Invalid_And(peer_id, ip) == Falsy(peer_id) /\ Falsy(ip)

\* `if not peer_id or not ip`
Invalid(peer_id, ip) == Falsy(peer_id) \/ Falsy(ip)

\* mutant: a registration sweeps the stale records out of the registry
HandleRegister_Evicting(reg, now, data) ==
    LET peer_id   == GetOr(data, "peer_id", None)
        ip        == PyOr(GetOr(data, "ip", None), GetOr(data, "ip_address", None))
        port      == GetOr(data, "port", DEFAULT_PORT)
        is_public == GetOr(data, "is_public", FALSE)
    IN  IF Invalid(peer_id, ip) THEN Out(reg, <<400>>, NoBody, <<>>)
        ELSE
            LET is_new == ~Has(reg, peer_id)
                kept   == IF is_new THEN ActiveOf(reg, now) ELSE reg
                reg2   == DictSet(kept, peer_id, NewRecord(reg, now, peer_id, ip, port, is_public))
                body   == [status |-> "ok", peer_id |-> peer_id]
                msg    == RegisterMsg(is_new, peer_id, ip)
            IN  IF LogRaises(msg)
                THEN Out(reg2, <<201, 500>>, body, <<>>)
                ELSE Out(reg2, <<201>>, body,
                         <<[event |-> IF is_new THEN "Registered" ELSE "Updated",
                            peer_id |-> peer_id, text |-> msg]>>)

\* mutant: `ip_address` checked first
HandleRegister_IpAddressFirst(reg, now, data) ==
    LET peer_id   == GetOr(data, "peer_id", None)
        ip        == PyOr(GetOr(data, "ip_address", None), GetOr(data, "ip", None))
        port      == GetOr(data, "port", DEFAULT_PORT)
        is_public == GetOr(data, "is_public", FALSE)
    IN  IF Invalid(peer_id, ip) THEN Out(reg, <<400>>, NoBody, <<>>)
        ELSE
            LET is_new == ~Has(reg, peer_id)
                reg2   == DictSet(reg, peer_id, NewRecord(reg, now, peer_id, ip, port, is_public))
                body   == [status |-> "ok", peer_id |-> peer_id]
                msg    == RegisterMsg(is_new, peer_id, ip)
            IN  IF LogRaises(msg)
                THEN Out(reg2, <<201, 500>>, body, <<>>)
                ELSE Out(reg2, <<201>>, body,
                         <<[event |-> IF is_new THEN "Registered" ELSE "Updated",
                            peer_id |-> peer_id, text |-> msg]>>)

\* mutant: an update keeps the stored port and is_public when the body gives none
HandleRegister_KeepOptions(reg, now, data) ==
    LET peer_id   == GetOr(data, "peer_id", None)
        ip        == PyOr(GetOr(data, "ip", None), GetOr(data, "ip_address", None))
        stored    == ~Falsy(peer_id) /\ Has(reg, peer_id)
        port      == GetOr(data, "port", IF stored THEN Get(reg, peer_id).port ELSE DEFAULT_PORT)
        is_public == GetOr(data, "is_public", IF stored THEN Get(reg, peer_id).is_public ELSE FALSE)
    IN  IF Invalid(peer_id, ip) THEN Out(reg, <<400>>, NoBody, <<>>)
        ELSE
            LET is_new == ~Has(reg, peer_id)
                reg2   == DictSet(reg, peer_id, NewRecord(reg, now, peer_id, ip, port, is_public))
                body   == [status |-> "ok", peer_id |-> peer_id]
                msg    == RegisterMsg(is_new, peer_id, ip)
            IN  IF LogRaises(msg)
                THEN Out(reg2, <<201, 500>>, body, <<>>)
                ELSE Out(reg2, <<201>>, body,
                         <<[event |-> IF is_new THEN "Registered" ELSE "Updated",
                            peer_id |-> peer_id, text |-> msg]>>)

HandleRegister(reg, now, data) ==
    LET peer_id   == GetOr(data, "peer_id", None)
        ip        == PyOr(GetOr(data, "ip", None), GetOr(data, "ip_address", None))
        port      == GetOr(data, "port", DEFAULT_PORT)
        is_public == GetOr(data, "is_public", FALSE)
    IN  IF Invalid(peer_id, ip) THEN Out(reg, <<400>>, NoBody, <<>>)
        ELSE
            LET is_new == ~Has(reg, peer_id)
                reg2   == DictSet(reg, peer_id, NewRecord(reg, now, peer_id, ip, port, is_public))
                body   == [status |-> "ok", peer_id |-> peer_id]
                msg    == RegisterMsg(is_new, peer_id, ip)
            IN  IF LogRaises(msg)
                THEN Out(reg2, <<201, 500>>, body, <<>>)
                ELSE Out(reg2, <<201>>, body,
                         <<[event |-> IF is_new THEN "Registered" ELSE "Updated",
                            peer_id |-> peer_id, text |-> msg]>>)

----------------------------------------------------------------------------
(* GET /api/peers/lookup?peer_id=..&count=.. *)

LookupMsg(peer_id) ==
    <<"Peer lookup for ">> \o Slice(peer_id, LOG_ID_LEN) \o <<"... returned {n} peers">>

\* the entry appended to matching_peers
LookupEntry(info) ==
    [peer_id    |-> info.peer_id,
     ip_address |-> info.ip,
     port       |-> info.port,
     is_public  |-> info.is_public]

\* `peer_id in peers and (now - peers[peer_id]['last_seen'] < stale_timeout)`
Matches(reg, now, peer_id) == Has(reg, peer_id) /\ IsActive(Get(reg, peer_id), now)

\* mutant: a lookup that finds the peer stale deletes its record
HandleLookup_Evicting(reg, now, params) ==
    LET peer_id == GetOr(params, "peer_id", None)
        countOk == "count" \notin DOMAIN params \/ IntParses(params["count"])
    IN  IF ~countOk THEN Out(reg, <<500>>, NoBody, <<>>)
        ELSE IF Falsy(peer_id) THEN Out(reg, <<400>>, NoBody, <<>>)
        ELSE IF Has(reg, peer_id) /\ ~IsActive(Get(reg, peer_id), now)
        THEN Out(DictDel(reg, peer_id), <<200>>, [peers |-> <<>>, count |-> 0], <<>>)
        ELSE Out(reg, <<200>>,
                 [peers |-> IF Has(reg, peer_id) THEN <<LookupEntry(Get(reg, peer_id))>> ELSE <<>>,
                  count |-> IF Has(reg, peer_id) THEN 1 ELSE 0],
                 <<>>)

\* mutant: a lookup of a stored peer refreshes its last_seen
HandleLookup_Touching(reg, now, params) ==
    LET peer_id == GetOr(params, "peer_id", None)
        countOk == "count" \notin DOMAIN params \/ IntParses(params["count"])
    IN  IF ~countOk THEN Out(reg, <<500>>, NoBody, <<>>)
        ELSE IF Falsy(peer_id) THEN Out(reg, <<400>>, NoBody, <<>>)
        ELSE
            LET matching_peers ==
                    IF Matches(reg, now, peer_id) THEN <<LookupEntry(Get(reg, peer_id))>> ELSE <<>>
                reg2 == IF Has(reg, peer_id)
                        THEN DictSet(reg, peer_id, [Get(reg, peer_id) EXCEPT !.last_seen = now])
                        ELSE reg
                body == [peers |-> matching_peers, count |-> Len(matching_peers)]
                msg  == LookupMsg(peer_id)
            IN  IF LogRaises(msg)
                THEN Out(reg2, <<200, 500>>, body, <<>>)
                ELSE Out(reg2, <<200>>, body,
                         <<[event |-> "Lookup", peer_id |-> peer_id, text |-> msg]>>)

HandleLookup(reg, now, params) ==
    LET peer_id == GetOr(params, "peer_id", None)
        countOk == "count" \notin DOMAIN params \/ IntParses(params["count"])
    IN  IF ~countOk THEN Out(reg, <<500>>, NoBody, <<>>)
        ELSE IF Falsy(peer_id) THEN Out(reg, <<400>>, NoBody, <<>>)
        ELSE
            LET matching_peers ==
                    IF Matches(reg, now, peer_id) THEN <<LookupEntry(Get(reg, peer_id))>> ELSE <<>>
                body == [peers |-> matching_peers, count |-> Len(matching_peers)]
                msg  == LookupMsg(peer_id)
            IN  IF LogRaises(msg)
                THEN Out(reg, <<200, 500>>, body, <<>>)
                ELSE Out(reg, <<200>>, body,
                         <<[event |-> "Lookup", peer_id |-> peer_id, text |-> msg]>>)

----------------------------------------------------------------------------
(* GET /peers, /api/peers *)

RemovingMsg(peer_id) ==
    <<"Removing stale peer ">> \o Slice(peer_id, LOG_ID_LEN) \o <<"... (last seen {n}s ago)">>

\* The loop `for peer_id, info in list(peers.items())` over the snapshot
\* `items`: an active record goes to active_peers; a stale one is logged and
\* then deleted.  raised: the loop was left by an exception.
RECURSIVE EvictLoop(_, _, _, _, _)
EvictLoop(items, reg, active_peers, now, log) ==
    IF items = <<>>
    THEN [peers |-> reg, active_peers |-> active_peers, log |-> log, raised |-> FALSE]
    ELSE
        LET info    == Head(items)
            peer_id == info.peer_id
        IN  IF IsActive(info, now)
            THEN EvictLoop(Tail(items), reg, DictSet(active_peers, peer_id, info), now, log)
            ELSE IF LogRaises(RemovingMsg(peer_id))
            THEN [peers |-> reg, active_peers |-> active_peers, log |-> log, raised |-> TRUE]
            ELSE EvictLoop(Tail(items), DictDel(reg, peer_id), active_peers, now,
                           Append(log, [event |-> "Removing", peer_id |-> peer_id,
                                        text |-> RemovingMsg(peer_id)]))

\* mutant: a listing that filters the stale records out without deleting them
HandleList_NoEvict(reg, now) ==
    Out(reg, <<200>>,
        [peers |-> ActiveOf(reg, now), count |-> Len(ActiveOf(reg, now)), timestamp |-> now],
        <<[event |-> "Returned", peer_id |-> None, text |-> <<"Returned {n} active peers">>]>>)

HandleList(reg, now) ==
    LET r == EvictLoop(reg, reg, <<>>, now, <<>>)
    IN  IF r.raised THEN Out(r.peers, <<500>>, NoBody, r.log)
        ELSE Out(r.peers, <<200>>,
                 [peers |-> r.active_peers, count |-> Len(r.active_peers), timestamp |-> now],
                 Append(r.log, [event |-> "Returned", peer_id |-> None,
                                text |-> <<"Returned {n} active peers">>]))

----------------------------------------------------------------------------
(* GET /health and GET /stats *)

server_start_time == 0

HandleHealth(reg, now) ==
    Out(reg, <<200>>,
        [status |-> "healthy", uptime |-> now - server_start_time, peer_count |-> Len(reg)],
        <<>>)

\* [p for p in active_peers if p.get('is_public', False)]
RECURSIVE PublicOf(_)
PublicOf(s) ==
    IF s = <<>> THEN <<>>
    ELSE IF Head(s).is_public THEN <<Head(s)>> \o PublicOf(Tail(s))
    ELSE PublicOf(Tail(s))

\* mutant: public peers counted over all records, not over the active ones
HandleStats_PublicOfAll(reg, now) ==
    Out(reg, <<200>>,
        [total_peers    |-> Len(reg),
         active_peers   |-> Len(ActiveOf(reg, now)),
         public_peers   |-> Len(PublicOf(reg)),
         private_peers  |-> Len(ActiveOf(reg, now)) - Len(PublicOf(reg)),
         uptime_seconds |-> now - server_start_time],
        <<>>)

HandleStats(reg, now) ==
    LET active_peers == ActiveOf(reg, now)
        public_peers == PublicOf(active_peers)
    IN  Out(reg, <<200>>,
            [total_peers    |-> Len(reg),
             active_peers   |-> Len(active_peers),
             public_peers   |-> Len(public_peers),
             private_peers  |-> Len(active_peers) - Len(public_peers),
             uptime_seconds |-> now - server_start_time],
            <<>>)

----------------------------------------------------------------------------
(* Requests the clients send *)

IdAbc == <<"a", "b", "c">>                    \* "abc"
IdPct == <<"1", "0", "0", "%">>               \* "100%"
Ip1   == <<"10.0.0.1">>
Ip2   == <<"10.0.0.2">>

PeerIds == {IdAbc, IdPct}

\* a key that is absent, or present with one of the values
Field(k, values) == {<<>>} \cup {k :> v : v \in values}

\* the address keys of a body: `ip`, `ip_address`, both or none, and an empty
\* `ip` next to an `ip_address`
AddressParts ==
    {a @@ b : a \in Field("ip", {Ip1}), b \in Field("ip_address", {Ip1, Ip2})}
        \cup {("ip" :> <<>>) @@ ("ip_address" :> Ip2)}

\* the optional keys of a body: both left out, or both given
OptionParts == {<<>>, ("port" :> 9000) @@ ("is_public" :> TRUE)}

\* bodies that pass `if not peer_id or not ip`
ValidBodies ==
    {b \in {("peer_id" :> p) @@ a @@ o : p \in PeerIds, a \in AddressParts, o \in OptionParts} :
        ~Falsy(PyOr(GetOr(b, "ip", None), GetOr(b, "ip_address", None)))}

\* bodies with peer_id missing or empty, or with no address
InvalidBodies ==
    {a @@ ("ip" :> Ip1) : a \in Field("peer_id", {<<>>})}
        \cup {("peer_id" :> IdAbc) @@ a : a \in {<<>>, "ip" :> <<>>, "ip_address" :> <<>>,
                                                ("ip" :> <<>>) @@ ("ip_address" :> <<>>)}}
        \cup {<<>>}

RegisterBodies == ValidBodies \cup InvalidBodies

LookupQueries ==
    {a @@ b : a \in Field("peer_id", PeerIds),
              b \in Field("count", {<<"5">>, <<"x">>})}

\* Requests arrive at the instants around the staleness boundary: the clock
\* goes 0, 299, 300, 599, 600, ..., so that records reach an age of exactly
\* 299 and of exactly 300 seconds (and of 0, 1, 301, 599, ... as it goes on).
Delta(now) == IF now % STALE_TIMEOUT = 0 THEN STALE_TIMEOUT - 1 ELSE 1

----------------------------------------------------------------------------
(* The server: one request is handled at a time, from start to end *)

NoRequest == [op |-> "none", req |-> <<>>, resp |-> <<>>, body |-> NoBody, log |-> <<>>]

----------------------------------------------------------------------------
(* Connections.  A client connects and sends one request; the connection   *)
(* waits until the server accepts it; the handler then runs statement by   *)
(* statement.  pre and acked are history, not program state.               *)

Clients == {"c1", "c2"}

IdleConn ==
    [pc |-> "idle", req |-> [op |-> "none", data |-> <<>>], pre |-> <<>>,
     now |-> 0, is_new |-> FALSE, registered_at |-> 0,
     items |-> <<>>, active_peers |-> <<>>, log |-> <<>>, entry |-> <<>>]

NotAcked == [time |-> -1, concurrent |-> FALSE]

Request(op, req, out) ==
    [op |-> op, req |-> req, resp |-> out.resp, body |-> out.body, log |-> out.log]

\* history of first registrations, after the registry went from reg to reg2 at time now
FirstSeen(reg, reg2, now) ==
    [p \in PeerIds |->
        IF first_registered[p] = -1 /\ Has(reg2, p) THEN now ELSE first_registered[p]]

Init ==
    /\ peers = <<>>
    /\ clock = server_start_time
    /\ ticks = 0
    /\ last = NoRequest
    /\ first_registered = [p \in PeerIds |-> -1]
    /\ conn = [c \in Clients |-> IdleConn]
    /\ acked = [p \in PeerIds |-> NotAcked]

DoRegister(data) ==
    LET out == HandleRegister(peers, clock, data)
    IN  /\ peers' = out.peers
        /\ last' = Request("register", data, out)
        /\ first_registered' = FirstSeen(peers, out.peers, clock)
        /\ UNCHANGED <<clock, ticks, concVars>>

Register == \E data \in RegisterBodies : DoRegister(data)

DoLookup(params) ==
    LET out == HandleLookup(peers, clock, params)
    IN  /\ peers' = out.peers
        /\ last' = Request("lookup", params, out)
        /\ UNCHANGED <<clock, ticks, first_registered, concVars>>

Lookup == \E params \in LookupQueries : DoLookup(params)

ListActive ==
    LET out == HandleList(peers, clock)
    IN  /\ peers' = out.peers
        /\ last' = Request("list", <<>>, out)
        /\ UNCHANGED <<clock, ticks, first_registered, concVars>>

Stats ==
    LET out == HandleStats(peers, clock)
    IN  /\ peers' = out.peers
        /\ last' = Request("stats", <<>>, out)
        /\ UNCHANGED <<clock, ticks, first_registered, concVars>>

Health ==
    LET out == HandleHealth(peers, clock)
    IN  /\ peers' = out.peers
        /\ last' = Request("health", <<>>, out)
        /\ UNCHANGED <<clock, ticks, first_registered, concVars>>

\* time passes between requests (`last` is the request of this instant, if any)
Tick ==
    /\ ticks < MaxTicks
    /\ clock' = clock + Delta(clock)
    /\ ticks' = ticks + 1
    /\ last' = NoRequest
    /\ UNCHANGED <<peers, first_registered, concVars>>

Next == Register \/ Lookup \/ ListActive \/ Stats \/ Health \/ Tick

Spec == Init /\ [][Next]_vars

----------------------------------------------------------------------------
(* The same handlers statement by statement, behind the accept loop of     *)
(* HTTPServer (socketserver.TCPServer, no ThreadingMixIn): serve_forever   *)
(* accepts a connection and runs its handler to the end before it accepts  *)
(* the next one.  Here `last` is the request whose handler has just        *)
(* returned.                                                               *)

ConcBodies ==
    {("peer_id" :> IdAbc) @@ ("ip" :> Ip1) @@ ("port" :> 9000) @@ ("is_public" :> TRUE),
     ("peer_id" :> IdPct) @@ ("ip_address" :> Ip2)}

ConcRequests ==
    {[op |-> "register", data |-> d] : d \in ConcBodies}
        \cup {[op |-> "lookup", data |-> "peer_id" :> IdAbc],
              [op |-> "list", data |-> <<>>], [op |-> "stats", data |-> <<>>]}

KeyErrorBody == [error |-> "KeyError"]

\* history: while the registration of peer_id is served, another client
\* waits with a registration of another peer_id
Overlaps(peer_id) ==
    \E e \in Clients :
        /\ conn[e].pc = "pending" /\ conn[e].req.op = "register"
        /\ GetOr(conn[e].req.data, "peer_id", None) # peer_id

\* client c connects and sends request r
Send(c, r) ==
    /\ conn[c].pc = "idle"
    /\ conn' = [conn EXCEPT ![c].pc = "pending", ![c].req = r]
    /\ last' = NoRequest
    /\ UNCHANGED <<peers, clock, ticks, first_registered, acked>>

\* mutant: ThreadingHTTPServer, a thread per connection
ServerFree_Threading(cn) == TRUE

\* serve_forever is between two requests: no handler is running
ServerFree(cn) == \A c \in Clients : cn[c].pc \in {"idle", "pending"}

Accept(c) ==
    /\ conn[c].pc = "pending"
    /\ ServerFree(conn)
    /\ conn' = [conn EXCEPT ![c].pc = "start", ![c].pre = peers]
    /\ last' = NoRequest
    /\ UNCHANGED <<peers, clock, ticks, first_registered, acked>>

\* the handler of c returns: what it wrote is observed, the connection is closed
Finish(c, out) ==
    /\ last' = Request(conn[c].req.op, conn[c].req.data, out)
    /\ conn' = [conn EXCEPT ![c] = IdleConn]

\* lines 39-49
RegStart(c) ==
    LET data    == conn[c].req.data
        peer_id == GetOr(data, "peer_id", None)
        ip      == PyOr(GetOr(data, "ip", None), GetOr(data, "ip_address", None))
    IN  /\ conn[c].pc = "start" /\ conn[c].req.op = "register"
        /\ IF Invalid(peer_id, ip)
           THEN Finish(c, Out(peers, <<400>>, NoBody, <<>>))
           ELSE /\ conn' = [conn EXCEPT ![c].pc = "build", ![c].now = clock,
                                        ![c].is_new = ~Has(peers, peer_id)]
                /\ last' = NoRequest
        /\ UNCHANGED <<peers, clock, ticks, first_registered, acked>>

\* line 57
RegBuild(c) ==
    LET peer_id == conn[c].req.data["peer_id"]
    IN  /\ conn[c].pc = "build"
        /\ conn' = [conn EXCEPT ![c].pc = "store",
                                ![c].registered_at =
                                    IF Has(peers, peer_id)
                                    THEN Get(peers, peer_id).registered_at ELSE conn[c].now]
        /\ last' = NoRequest
        /\ UNCHANGED <<peers, clock, ticks, first_registered, acked>>

\* lines 51-58
RegStore(c) ==
    LET data    == conn[c].req.data
        peer_id == data["peer_id"]
    IN  /\ conn[c].pc = "store"
        /\ peers' = DictSet(peers, peer_id,
                            [peer_id       |-> peer_id,
                             ip            |-> PyOr(GetOr(data, "ip", None), GetOr(data, "ip_address", None)),
                             port          |-> GetOr(data, "port", DEFAULT_PORT),
                             is_public     |-> GetOr(data, "is_public", FALSE),
                             last_seen     |-> conn[c].now,
                             registered_at |-> conn[c].registered_at])
        /\ conn' = [conn EXCEPT ![c].pc = "respond"]
        /\ last' = NoRequest
        /\ UNCHANGED <<clock, ticks, first_registered, acked>>

\* lines 60-77
RegRespond(c) ==
    LET data    == conn[c].req.data
        peer_id == data["peer_id"]
        ip      == PyOr(GetOr(data, "ip", None), GetOr(data, "ip_address", None))
        body    == [status |-> "ok", peer_id |-> peer_id]
        msg     == RegisterMsg(conn[c].is_new, peer_id, ip)
    IN  /\ conn[c].pc = "respond" /\ conn[c].req.op = "register"
        /\ IF LogRaises(msg)
           THEN Finish(c, Out(peers, <<201, 500>>, body, <<>>))
           ELSE Finish(c, Out(peers, <<201>>, body,
                              <<[event |-> IF conn[c].is_new THEN "Registered" ELSE "Updated",
                                 peer_id |-> peer_id, text |-> msg]>>))
        /\ acked' = [acked EXCEPT ![peer_id] =
                        [time |-> conn[c].now, concurrent |-> Overlaps(peer_id)]]
        /\ UNCHANGED <<peers, clock, ticks, first_registered>>

\* lines 195-199
ListStart(c) ==
    /\ conn[c].pc = "start" /\ conn[c].req.op = "list"
    /\ conn' = [conn EXCEPT ![c].pc = "loop", ![c].now = clock, ![c].items = peers]
    /\ last' = NoRequest
    /\ UNCHANGED <<peers, clock, ticks, first_registered, acked>>

\* lines 199-204, one iteration
ListIter(c) ==
    LET info    == Head(conn[c].items)
        peer_id == info.peer_id
    IN  /\ conn[c].pc = "loop" /\ conn[c].items # <<>>
        /\ IF IsActive(info, conn[c].now)
           THEN /\ conn' = [conn EXCEPT ![c].items = Tail(@),
                                        ![c].active_peers = DictSet(@, peer_id, info)]
                /\ last' = NoRequest
                /\ UNCHANGED peers
           ELSE IF LogRaises(RemovingMsg(peer_id))
           THEN /\ Finish(c, Out(peers, <<500>>, NoBody, conn[c].log))
                /\ UNCHANGED peers
           ELSE IF Has(peers, peer_id)
           THEN /\ peers' = DictDel(peers, peer_id)
                /\ conn' = [conn EXCEPT ![c].items = Tail(@),
                                        ![c].log = Append(@, [event |-> "Removing", peer_id |-> peer_id,
                                                              text |-> RemovingMsg(peer_id)])]
                /\ last' = NoRequest
           ELSE /\ Finish(c, Out(peers, <<500>>, KeyErrorBody, conn[c].log))
                /\ UNCHANGED peers
        /\ UNCHANGED <<clock, ticks, first_registered, acked>>

\* lines 206-216
ListRespond(c) ==
    /\ conn[c].pc = "loop" /\ conn[c].items = <<>>
    /\ Finish(c, Out(peers, <<200>>,
                     [peers |-> conn[c].active_peers, count |-> Len(conn[c].active_peers),
                      timestamp |-> conn[c].now],
                     Append(conn[c].log, [event |-> "Returned", peer_id |-> None,
                                          text |-> <<"Returned {n} active peers">>])))
    /\ UNCHANGED <<peers, clock, ticks, first_registered, acked>>

\* what lookup answers with matching_peers, lines 160-169
LookupAnswer(c, peer_id, matching_peers) ==
    IF LogRaises(LookupMsg(peer_id))
    THEN Finish(c, Out(peers, <<200, 500>>,
                       [peers |-> matching_peers, count |-> Len(matching_peers)], <<>>))
    ELSE Finish(c, Out(peers, <<200>>,
                       [peers |-> matching_peers, count |-> Len(matching_peers)],
                       <<[event |-> "Lookup", peer_id |-> peer_id, text |-> LookupMsg(peer_id)]>>))

\* lines 137-152
LookupStart(c) ==
    LET params  == conn[c].req.data
        peer_id == GetOr(params, "peer_id", None)
    IN  /\ conn[c].pc = "start" /\ conn[c].req.op = "lookup"
        /\ IF "count" \in DOMAIN params /\ ~IntParses(params["count"])
           THEN Finish(c, Out(peers, <<500>>, NoBody, <<>>))
           ELSE IF Falsy(peer_id) THEN Finish(c, Out(peers, <<400>>, NoBody, <<>>))
           ELSE IF Matches(peers, clock, peer_id)
           THEN /\ conn' = [conn EXCEPT ![c].pc = "read", ![c].now = clock]
                /\ last' = NoRequest
           ELSE LookupAnswer(c, peer_id, <<>>)
        /\ UNCHANGED <<peers, clock, ticks, first_registered, acked>>

\* lines 153-158: the reads of peers[peer_id]
LookupRead(c) ==
    LET peer_id == conn[c].req.data["peer_id"]
    IN  /\ conn[c].pc = "read"
        /\ IF Has(peers, peer_id)
           THEN /\ conn' = [conn EXCEPT ![c].pc = "respond",
                                        ![c].entry = <<LookupEntry(Get(peers, peer_id))>>]
                /\ last' = NoRequest
           ELSE Finish(c, Out(peers, <<500>>, KeyErrorBody, <<>>))
        /\ UNCHANGED <<peers, clock, ticks, first_registered, acked>>

\* lines 160-169
LookupRespond(c) ==
    /\ conn[c].pc = "respond" /\ conn[c].req.op = "lookup"
    /\ LookupAnswer(c, conn[c].req.data["peer_id"], conn[c].entry)
    /\ UNCHANGED <<peers, clock, ticks, first_registered, acked>>

\* lines 232-248
StatsRun(c) ==
    /\ conn[c].pc = "start" /\ conn[c].req.op = "stats"
    /\ Finish(c, HandleStats(peers, clock))
    /\ UNCHANGED <<peers, clock, ticks, first_registered, acked>>

\* time passes between requests (a handler runs in far less than a second)
TickConc ==
    /\ \A c \in Clients : conn[c].pc \in {"idle", "pending"}
    /\ ticks < MaxTicks
    /\ clock' = clock + Delta(clock)
    /\ ticks' = ticks + 1
    /\ last' = NoRequest
    /\ UNCHANGED <<peers, first_registered, conn, acked>>

NextConc ==
    \/ \E c \in Clients, r \in ConcRequests : Send(c, r)
    \/ \E c \in Clients :
          \/ Accept(c)
          \/ RegStart(c) \/ RegBuild(c) \/ RegStore(c) \/ RegRespond(c)
          \/ ListStart(c) \/ ListIter(c) \/ ListRespond(c)
          \/ LookupStart(c) \/ LookupRead(c) \/ LookupRespond(c)
          \/ StatsRun(c)
    \/ TickConc

SpecConc == Init /\ [][NextConc]_vars

----------------------------------------------------------------------------
(* Vocabulary of the properties *)

Records(d) == {d[i] : i \in DOMAIN d}

\* the boundary in whole seconds: active up to an age of 299, stale from 300
Fresh(r, now) == now - r.last_seen <= 299

FreshRecords(d, now) == {r \in Records(d) : Fresh(r, now)}

StaleRecords(d, now) == {r \in Records(d) : ~Fresh(r, now)}

RecordOf(d, p) == CHOOSE r \in Records(d) : r.peer_id = p

Present(data, k) == k \in DOMAIN data /\ data[k] # <<>>

\* this step handles a request op (every action writes `last`; a tick clears it)
Step(op) == last'.op = op

\* the request just handled was op and its handler ran to its end without an exception
Served(op) == last.op = op /\ Len(last.resp) = 1 /\ last.resp[1] \in {200, 201}

----------------------------------------------------------------------------
\* C1: a full listing at time now removes every record with now - last_seen >= 300,
\* returns exactly the records with now - last_seen < 300, unchanged, with their
\* count, and leaves the registry holding exactly the returned set.
C1_ListingEvictsAllStale ==
    [][Step("list") =>
          /\ last'.resp = <<200>>
          /\ Records(last'.body.peers) = FreshRecords(peers, clock)
          /\ last'.body.count = Cardinality(FreshRecords(peers, clock))
          /\ Records(peers') = Records(last'.body.peers)
          /\ Len(peers') = last'.body.count]_vars

\* C2: a lookup of a non-empty peer_id writes a 200 response that holds exactly
\* one entry (peer_id, ip, port, is_public as stored) if the peer is in the
\* registry with an age of at most 299 seconds, and no entry otherwise.
C2_LookupReturnsActiveOnly ==
    [][(Step("lookup") /\ Present(last'.req, "peer_id")
            /\ ("count" \in DOMAIN last'.req => IntParses(last'.req["count"]))) =>
             LET p     == last'.req["peer_id"]
                 found == \E r \in Records(peers) : r.peer_id = p /\ clock - r.last_seen <= 299
             IN  /\ last'.resp[1] = 200
                 /\ last'.body.count = Len(last'.body.peers)
                 /\ found =>
                       last'.body.peers =
                           <<[peer_id    |-> p,
                              ip_address |-> RecordOf(peers, p).ip,
                              port       |-> RecordOf(peers, p).port,
                              is_public  |-> RecordOf(peers, p).is_public]>>
                 /\ ~found => last'.body.peers = <<>>]_vars

\* a lookup has just returned a record that is exactly 299 seconds old
C2_Witness ==
    /\ Served("lookup")
    /\ last.body.count = 1
    /\ \E r \in Records(peers) :
          r.peer_id = last.body.peers[1].peer_id /\ clock - r.last_seen = 299

\* C3: registering a peer_id that is already stored keeps one record for it,
\* does not change the number of records, and stores the ip, port and
\* is_public of this registration.
C3_ReRegistrationUpdatesInPlace ==
    [][(Step("register") /\ last'.req \in ValidBodies /\ last'.req["peer_id"] \in Keys(peers)) =>
          LET data == last'.req
          IN /\ Len(peers') = Len(peers)
             /\ Cardinality({i \in DOMAIN peers' : peers'[i].peer_id = data["peer_id"]}) = 1
             /\ LET r == RecordOf(peers', data["peer_id"])
                IN  /\ r.ip = (IF Present(data, "ip") THEN data["ip"] ELSE data["ip_address"])
                    /\ r.port = (IF "port" \in DOMAIN data THEN data["port"] ELSE 8443)
                    /\ r.is_public = ("is_public" \in DOMAIN data /\ data["is_public"])]_vars

\* a stored peer has just been registered again, at a later time than its first registration
C3_Witness ==
    /\ Served("register")
    /\ last.log[1].event = "Updated"
    /\ RecordOf(peers, last.log[1].peer_id).registered_at
          < RecordOf(peers, last.log[1].peer_id).last_seen

\* C4 (as stated): after any sequence of operations the registered_at stored
\* for a peer_id is the time of the first registration of that peer_id.
C4_RegisteredAtIsFirstEver ==
    \A r \in Records(peers) :
        r.peer_id \in PeerIds => r.registered_at = first_registered[r.peer_id]

\* C4 (amended): registered_at is set when the record is created and is never
\* overwritten while the record is stored; a record created for a peer_id
\* that is not stored (never registered, or evicted by a listing) gets the
\* time of that registration.
C4_RegisteredAtKeptWhileStored ==
    [][\A p \in PeerIds :
          /\ (p \in Keys(peers) /\ p \in Keys(peers')) =>
                RecordOf(peers', p).registered_at = RecordOf(peers, p).registered_at
          /\ (p \notin Keys(peers) /\ p \in Keys(peers')) =>
                RecordOf(peers', p).registered_at = clock]_vars

\* a peer evicted by a listing was registered anew and then registered again:
\* its registered_at is the time of the new record, later than its first registration ever
C4_Witness ==
    /\ Served("register")
    /\ last.log[1].event = "Updated"
    /\ first_registered[last.log[1].peer_id] < RecordOf(peers, last.log[1].peer_id).registered_at

\* C5: a registration with peer_id missing or empty, or with ip and ip_address
\* both missing or empty, gets a 400 response and leaves the registry as it was.
C5_InvalidRegistrationRejected ==
    [][(Step("register")
            /\ (~Present(last'.req, "peer_id")
                  \/ (~Present(last'.req, "ip") /\ ~Present(last'.req, "ip_address")))) =>
          (last'.resp = <<400>> /\ peers' = peers)]_vars

\* a registration has just been rejected while the registry holds records
C5_Witness == last.op = "register" /\ last.resp = <<400>> /\ peers # <<>>

\* C6: a stale peer stays stored, and counted in total_peers, through lookup,
\* stats and health requests; the first full listing made while it is stale
\* removes it, so the number of records decreases.
C6_StaleCountedUntilListing ==
    [][/\ (Step("lookup") \/ Step("stats") \/ Step("health")) =>
              StaleRecords(peers, clock) \subseteq Records(peers')
       /\ (Step("stats") /\ StaleRecords(peers, clock) # {}) =>
              last'.body.total_peers = Cardinality(Records(peers))
       /\ (Step("list") /\ StaleRecords(peers, clock) # {}) =>
              /\ Len(peers') < Len(peers)
              /\ \A r \in StaleRecords(peers, clock) : r.peer_id \notin Keys(peers')]_vars

\* C7: lookup, stats and health leave the registry exactly as it was.
C7_ReadsDoNotMutate ==
    [][(Step("lookup") \/ Step("stats") \/ Step("health")) => peers' = peers]_vars

\* a lookup of a stale peer has just returned nothing, and the stale record is still stored
C7_Witness ==
    /\ Served("lookup")
    /\ last.body.count = 0
    /\ \E r \in StaleRecords(peers, clock) : r.peer_id = last.log[1].peer_id

\* C8: stats reports total = records stored, active = records younger than
\* 300 s, public = active records with is_public, private = active - public,
\* so public + private = active and 0 <= public <= active <= total.
C8_StatsCounts ==
    last.op = "stats" =>
        /\ last.resp = <<200>>
        /\ last.body.total_peers = Cardinality(Records(peers))
        /\ last.body.active_peers = Cardinality(FreshRecords(peers, clock))
        /\ last.body.public_peers =
              Cardinality({r \in FreshRecords(peers, clock) : r.is_public})
        /\ last.body.private_peers =
              Cardinality({r \in FreshRecords(peers, clock) : ~r.is_public})
        /\ last.body.public_peers + last.body.private_peers = last.body.active_peers
        /\ 0 <= last.body.public_peers
        /\ last.body.public_peers <= last.body.active_peers
        /\ last.body.active_peers <= last.body.total_peers

\* stats has just counted a stale public record in total but not in active or public
C8_Witness ==
    /\ last.op = "stats"
    /\ last.body.total_peers > last.body.active_peers
    /\ last.body.active_peers > 0
    /\ last.body.public_peers > 0
    /\ \E r \in StaleRecords(peers, clock) : r.is_public

\* the handler serving h is between its first and its last statement
Running(h) == h.pc \notin {"idle", "pending"}

\* what the handler serving h does when run in one piece, at time now, on the
\* registry it found when its connection was accepted
AtomicOutcome(h, now) ==
    CASE h.req.op = "register" -> HandleRegister(h.pre, now, h.req.data)
      [] h.req.op = "lookup"   -> HandleLookup(h.pre, now, h.req.data)
      [] h.req.op = "list"     -> HandleList(h.pre, now)
      [] h.req.op = "stats"    -> HandleStats(h.pre, now)

\* C9: with several clients connected at once, every operation is atomic: at
\* most one handler runs at a time, and when it returns, the registry and
\* what it wrote are those of the whole operation applied to the registry as
\* it was when the operation began; a listing deletes only a record that is
\* still the stale record it saw (no registration is lost) and its `del`
\* never finds the key gone (no record is deleted twice).
C9_OperationsAtomic ==
    [][\A c \in Clients :
          /\ Running(conn[c]) => \A d \in Clients \ {c} : ~Running(conn[d])
          /\ (Running(conn[c]) /\ conn'[c].pc = "idle") =>
                LET a == AtomicOutcome(conn[c], IF conn[c].pc = "start" THEN clock ELSE conn[c].now)
                IN  /\ peers' = a.peers
                    /\ last'.resp = a.resp
                    /\ last'.body = a.body
                    /\ last'.log = a.log
          /\ (conn[c].pc = "loop" /\ conn'[c] # conn[c] /\ peers' # peers) =>
                Head(conn[c].items) \in Records(peers)
          /\ last'.body # KeyErrorBody]_vars

\* a listing has just evicted a stale peer while another client was waiting
\* with a registration of that same peer_id
C9_Witness ==
    /\ Served("list")
    /\ \E i \in DOMAIN last.log, c \in Clients :
          /\ last.log[i].event = "Removing"
          /\ conn[c].pc = "pending" /\ conn[c].req.op = "register"
          /\ conn[c].req.data["peer_id"] = last.log[i].peer_id

\* the peers whose latest acknowledged registration is less than 300 s before ts
AckedFresh(ts) == {p \in PeerIds : acked[p].time >= 0 /\ ts - acked[p].time <= 299}

\* C10: every valid registration, whatever else is connected, is answered 201
\* and stored; a listing returns exactly the peers registered less than 300 s
\* before it, and when no registered peer is stale it succeeds and its count
\* is the number of peers registered.
C10_RegistrationsAllListed ==
    /\ (last.op = "register" /\ last.req \in ValidBodies) =>
          /\ last.resp[1] = 201
          /\ acked[last.req["peer_id"]].time >= 0
          /\ \E r \in Records(peers) :
                r.peer_id = last.req["peer_id"] /\ r.last_seen = acked[r.peer_id].time
    /\ (last.op = "list" /\ last.resp = <<200>>) =>
          /\ Keys(last.body.peers) = AckedFresh(last.body.timestamp)
          /\ last.body.count = Cardinality(AckedFresh(last.body.timestamp))
    /\ (last.op = "list" /\ \A p \in PeerIds : acked[p].time >= 0 => p \in AckedFresh(clock)) =>
          /\ last.resp = <<200>>
          /\ last.body.count = Cardinality({p \in PeerIds : acked[p].time >= 0})

\* a listing has just returned both peers with count 2, one of them registered
\* while the registration of the other was waiting, both registrations served
C10_Witness ==
    /\ Served("list")
    /\ last.body.count = Cardinality(PeerIds)
    /\ \E p \in PeerIds : acked[p].concurrent
    /\ \A c \in Clients : ~(conn[c].pc = "pending" /\ conn[c].req.op = "register")

\* the request ended in a client-error or server-error response
Failed(q) == q.op # "none" /\ \E i \in DOMAIN q.resp : q.resp[i] >= 400

\* C11: a request that ends in a 4xx or 5xx response leaves the registry as
\* it was before the request, and a full listing made after a failed request
\* still evicts every stale record.
C11_FailureLeavesRegistryIntact ==
    [][/\ Failed(last') => peers' = peers
       /\ (Failed(last) /\ Step("list")) =>
             (last'.resp = <<200>> /\ StaleRecords(peers', clock) = {})]_vars

\* C12: last_seen of a peer never decreases: no stored last_seen is later than
\* the current time, a registration answered 201 sets the last_seen of its
\* peer_id to the current time, and no step changes the last_seen of any
\* other stored record.
C12_LastSeenMonotonic ==
    [][/\ \A r \in Records(peers) : r.last_seen <= clock
       /\ \A p \in Keys(peers) \cap Keys(peers') :
             RecordOf(peers', p).last_seen >= RecordOf(peers, p).last_seen
       /\ (Step("register") /\ last'.resp # <<>> /\ last'.resp[1] = 201) =>
             /\ last'.req["peer_id"] \in Keys(peers')
             /\ RecordOf(peers', last'.req["peer_id"]).last_seen = clock
       /\ \A p \in Keys(peers) \cap Keys(peers') :
             ~(Step("register") /\ last'.resp # <<>> /\ last'.resp[1] = 201
                   /\ last'.req["peer_id"] = p) =>
                 RecordOf(peers', p).last_seen = RecordOf(peers, p).last_seen]_vars

\* a peer first registered at time 0 has just been registered again 300 or
\* more seconds later, and its last_seen is the time of this registration
C12_Witness ==
    /\ Served("register")
    /\ last.log[1].event = "Updated"
    /\ clock >= STALE_TIMEOUT
    /\ RecordOf(peers, last.req["peer_id"]).registered_at = 0
    /\ RecordOf(peers, last.req["peer_id"]).last_seen = clock

----------------------------------------------------------------------------
(* One client that registers and looks up the peer "abc" only, with the    *)
(* clock advancing by 1 or by 300 seconds between requests (ages of 0, 1,  *)
(* 2, 299, 300, 301, ... seconds).                                         *)

TraceBody ==
    ("peer_id" :> IdAbc) @@ ("ip" :> Ip1) @@ ("port" :> 9000) @@ ("is_public" :> TRUE)

TraceQuery == "peer_id" :> IdAbc

DeltasTrace == {1, STALE_TIMEOUT}

RegisterTrace == DoRegister(TraceBody)

LookupTrace == DoLookup(TraceQuery)

TickTrace ==
    /\ ticks < MaxTicks
    /\ \E d \in DeltasTrace : clock' = clock + d
    /\ ticks' = ticks + 1
    /\ last' = NoRequest
    /\ UNCHANGED <<peers, first_registered, concVars>>

NextTrace == RegisterTrace \/ LookupTrace \/ ListActive \/ Stats \/ TickTrace

SpecTrace == Init /\ [][NextTrace]_vars

\* the record of abc as registered at time t and not registered again
TraceRecord(t) ==
    [peer_id |-> IdAbc, ip |-> Ip1, port |-> 9000, is_public |-> TRUE,
     last_seen |-> t, registered_at |-> t]

\* C13: on an empty registry, registering abc (10.0.0.1, 9000, public) stores
\* one record; while that record is the registry, a lookup of abc made less
\* than 300 s later returns one entry with exactly those fields; a lookup
\* made 301 s later returns nothing and leaves the record stored; a full
\* listing made 301 s later leaves the registry empty, with total 0.
C13_EndToEndTrace ==
    [][/\ (Step("register") /\ peers = <<>>) =>
             (last'.resp = <<201>> /\ peers' = <<TraceRecord(clock)>>)
       /\ \A t \in {0, 1} :
             peers = <<TraceRecord(t)>> =>
                /\ (Step("lookup") /\ clock - t < 300) =>
                      /\ last'.resp = <<200>>
                      /\ last'.body = [peers |-> <<[peer_id |-> IdAbc, ip_address |-> Ip1,
                                                    port |-> 9000, is_public |-> TRUE]>>,
                                       count |-> 1]
                /\ (Step("lookup") /\ clock - t = 301) =>
                      /\ last'.resp = <<200>>
                      /\ last'.body = [peers |-> <<>>, count |-> 0]
                      /\ peers' = <<TraceRecord(t)>>
                /\ (Step("list") /\ clock - t = 301) =>
                      /\ last'.resp = <<200>>
                      /\ last'.body.count = 0
                      /\ peers' = <<>>
                      /\ HandleStats(peers', clock).body.total_peers = 0]_vars

\* abc was registered at time 0 and not again; 301 seconds later a lookup of
\* abc has just returned nothing, and the record is still stored
C13_Witness ==
    /\ Served("lookup")
    /\ clock = 301
    /\ last.body.count = 0
    /\ peers = <<TraceRecord(0)>>

----------------------------------------------------------------------------
\* C14: a valid registration whose body has no port stores port 8443 and one
\* whose body has no is_public stores is_public false, whether the peer_id
\* was stored before or not and whatever port and is_public were stored.
C14_DefaultsFilledIn ==
    [][(Step("register") /\ last'.req \in ValidBodies) =>
          LET data == last'.req
              r    == RecordOf(peers', data["peer_id"])
          IN  /\ data["peer_id"] \in Keys(peers')
              /\ "port" \notin DOMAIN data => r.port = 8443
              /\ "is_public" \notin DOMAIN data => r.is_public = FALSE
              /\ "port" \in DOMAIN data => r.port = data["port"]
              /\ "is_public" \in DOMAIN data => r.is_public = data["is_public"]]_vars

\* a stored peer has just been registered again with no port and no
\* is_public, and its record holds port 8443 and is_public false
C14_Witness ==
    /\ Served("register")
    /\ last.log[1].event = "Updated"
    /\ "port" \notin DOMAIN last.req /\ "is_public" \notin DOMAIN last.req
    /\ RecordOf(peers, last.req["peer_id"]).port = DEFAULT_PORT
    /\ RecordOf(peers, last.req["peer_id"]).is_public = FALSE

----------------------------------------------------------------------------
\* the body with its address moved from the key ip_address to the key ip
UnderIp(data) ==
    ("ip" :> data["ip_address"]) @@ [k \in DOMAIN data \ {"ip_address"} |-> data[k]]

\* what the step has done, as a handler outcome
Outcome == Out(peers', last'.resp, last'.body, last'.log)

\* C15 (as stated): a registration with the address under ip_address alone
\* has the outcome of the same registration with that address under ip; when
\* both keys are given, the value of ip is the one stored.
C15_IpStoredWhenBothGiven ==
    [][(Step("register") /\ last'.req \in ValidBodies) =>
          LET data == last'.req
          IN  /\ "ip" \notin DOMAIN data =>
                    Outcome = HandleRegister(peers, clock, UnderIp(data))
              /\ {"ip", "ip_address"} \subseteq DOMAIN data =>
                    RecordOf(peers', data["peer_id"]).ip = data["ip"]]_vars

\* C15 (amended): as above, but when both keys are given the value of ip is
\* stored only if it is not empty; an empty ip counts as absent and the
\* value of ip_address is stored.
C15_NonEmptyIpStoredWhenBothGiven ==
    [][(Step("register") /\ last'.req \in ValidBodies) =>
          LET data == last'.req
          IN  /\ "ip" \notin DOMAIN data =>
                    Outcome = HandleRegister(peers, clock, UnderIp(data))
              /\ ({"ip", "ip_address"} \subseteq DOMAIN data /\ data["ip"] # <<>>) =>
                    RecordOf(peers', data["peer_id"]).ip = data["ip"]
              /\ ({"ip", "ip_address"} \subseteq DOMAIN data /\ data["ip"] = <<>>) =>
                    RecordOf(peers', data["peer_id"]).ip = data["ip_address"]]_vars

\* a registration that gave ip 10.0.0.1 and ip_address 10.0.0.2 has just
\* been stored with ip 10.0.0.1
C15_Witness ==
    /\ Served("register")
    /\ {"ip", "ip_address"} \subseteq DOMAIN last.req
    /\ last.req["ip"] = Ip1 /\ last.req["ip_address"] = Ip2
    /\ RecordOf(peers, last.req["peer_id"]).ip = Ip1

----------------------------------------------------------------------------
\* C16: a register request leaves the record of every peer_id other than its
\* own stored and unchanged, stale or not; a peer_id leaves the registry
\* only in a listing step and enters it only in a register step.
C16_RegisterTouchesOwnRecordOnly ==
    [][/\ Step("register") =>
             \A q \in Keys(peers) :
                 q # GetOr(last'.req, "peer_id", None) =>
                     (q \in Keys(peers') /\ RecordOf(peers', q) = RecordOf(peers, q))
       /\ Keys(peers) \ Keys(peers') # {} => Step("list")
       /\ Keys(peers') \ Keys(peers) # {} => Step("register")]_vars

\* a new peer has just been registered while the record of another peer is
\* stale, and that stale record is still stored
C16_Witness ==
    /\ Served("register")
    /\ last.log[1].event = "Registered"
    /\ \E r \in StaleRecords(peers, clock) : r.peer_id # last.req["peer_id"]

----------------------------------------------------------------------------
\* the query string without its count parameter
WithoutCount(params) == [k \in DOMAIN params \ {"count"} |-> params[k]]

\* C17: a lookup has the same outcome (registry, response, entries returned,
\* log line) as the same lookup with the count parameter left out, whatever
\* the value of count.
C17_CountNotBinding ==
    [][Step("lookup") => Outcome = HandleLookup(peers, clock, WithoutCount(last'.req))]_vars

----------------------------------------------------------------------------
\* C18: a valid registration of a peer whose stale record is still stored is
\* reported as an update (the log line says "Updated"), makes the peer
\* active again and keeps its registered_at; a valid registration of a peer
\* whose record a listing has evicted is reported as new (the log line says
\* "Registered") and stores registered_at = last_seen = the current time.
C18_StaleReRegistration ==
    [][(Step("register") /\ last'.req \in ValidBodies) =>
          LET p == last'.req["peer_id"]
          IN  /\ (p \in Keys(peers) /\ ~Fresh(RecordOf(peers, p), clock)) =>
                    /\ Len(last'.log) = 1 /\ last'.log[1].event = "Updated"
                    /\ p \in Keys(peers') /\ Fresh(RecordOf(peers', p), clock)
                    /\ RecordOf(peers', p).registered_at = RecordOf(peers, p).registered_at
              /\ (p \notin Keys(peers) /\ first_registered[p] >= 0) =>
                    /\ Len(last'.log) = 1 /\ last'.log[1].event = "Registered"
                    /\ p \in Keys(peers')
                    /\ RecordOf(peers', p).registered_at = clock
                    /\ RecordOf(peers', p).last_seen = clock]_vars

----------------------------------------------------------------------------
\* C19: in every reachable registry state and at every time, a full listing
\* made now would return a list, a lookup of p made now would return a record
\* iff that list includes p, stats made now would report active = the count
\* of that list, and after that listing the registry would hold no stale
\* record, so that stats would report total = active = that count.
C19_ReadsAgreeOnActiveness ==
    LET listing == HandleList(peers, clock)
        after   == HandleStats(listing.peers, clock)
    IN  /\ listing.resp = <<200>>
        /\ \A p \in PeerIds :
              HandleLookup(peers, clock, "peer_id" :> p).body.peers # <<>>
                  <=> p \in Keys(listing.body.peers)
        /\ HandleStats(peers, clock).body.active_peers = listing.body.count
        /\ StaleRecords(listing.peers, clock) = {}
        /\ after.body.total_peers = listing.body.count
        /\ after.body.active_peers = listing.body.count

----------------------------------------------------------------------------
(* Time progress: the clock keeps advancing (weak fairness of Tick), and   *)
(* the clients stop registering while at least two clock advances (300 s)  *)
(* of the run are left.                                                    *)

RegisterLive ==
    /\ ticks + 2 <= MaxTicks
    /\ \E data \in ValidBodies : DoRegister(data)

NextLive == RegisterLive \/ Lookup \/ ListActive \/ Tick

SpecLive == Init /\ [][NextLive]_vars /\ WF_vars(Tick)

\* p is stored and now - last_seen >= 300
StaleNow(p) == p \in Keys(peers) /\ clock - RecordOf(peers, p).last_seen >= STALE_TIMEOUT

\* p is stale, or its stale record has been evicted
Gone(p) == p \notin Keys(peers) \/ StaleNow(p)

\* this step is a registration of p that was stored
Registers(p) ==
    /\ Step("register")
    /\ last'.resp # <<>> /\ last'.resp[1] = 201
    /\ last'.req["peer_id"] = p

\* once p is stale it stays stale or evicted through every step that is not
\* a registration of p; no lookup returns p and no listing includes p while
\* it is so
StaleStaysStale ==
    [][\A p \in PeerIds :
          Gone(p) =>
             /\ ~Registers(p) => (p \notin Keys(peers') \/
                                   clock' - RecordOf(peers', p).last_seen >= STALE_TIMEOUT)
             /\ (Step("lookup") /\ GetOr(last'.req, "peer_id", None) = p /\ last'.resp[1] = 200) =>
                   last'.body.peers = <<>>
             /\ (Step("list") /\ last'.resp = <<200>>) => p \notin Keys(last'.body.peers)]_vars

====
